---------------------------- MODULE Spec2Model ----------------------------
(***************************************************************************)
(* A model of pysub (src/pysub/pysub.py): Fragment, SubtitleStream, the    *)
(* SubRip parser and the synchronization algorithm.                        *)
(*                                                                         *)
(* Times are datetimes in the source.  Here a datetime is the integer      *)
(* number of time units since 1900-01-01 00:00:00 (it may be negative: a   *)
(* backward shift can reach the previous day), and _u(t), which reads only *)
(* the hour, minute, second and microsecond components, is t modulo one    *)
(* day.  A day is Day units long.                                          *)
(*                                                                         *)
(* Floats are modelled as exact rationals <<n, d>> with d > 0.             *)
(*                                                                         *)
(* The module holds five scenarios, each with its own specification:       *)
(*   SpecSelect  select_closest applied to a reference and a window        *)
(*   SpecSync    SubtitleStream.synchronize on two streams                 *)
(*   SpecParse   SubtitleStream._parse reading lines                       *)
(*   SpecShift   SubtitleStream.shift composed with itself                 *)
(*   SpecCheck   SubtitleStream.check_sequence, with and without repair    *)
(***************************************************************************)
EXTENDS Integers, Sequences, FiniteSets, TLC

VARIABLES
    pc,               \* position of the running call
    err,              \* exception raised by the running call, "none" if none
    errline,          \* source line that raised it, 0 if none
    \* ---- select_closest (lines 212-238)
    ref,              \* the reference fragment
    options,          \* the candidate window
    k,                \* number of options the for loop has consumed
    lcsrs,            \* the oracle's answers so far, one per option consumed
    interval,         \* line 215
    time_score,       \* line 226, of the last candidate scored
    overlap,          \* line 228
    overlap_score,    \* line 229
    confidence,       \* line 232
    best_choice,      \* line 213 / 236
    best_confidence,  \* line 214 / 235
    \* ---- synchronize and _synchronize (lines 181-258)
    get_paraphrases,  \* the similarity oracle was imported (lines 33-36)
    sstream1,         \* first argument
    sstream2,         \* second argument
    totaldelay,       \* line 193
    reference,        \* line 194
    delayed,          \* line 194
    duration,         \* line 195
    idx,              \* position of the for loop of line 244 in reference
    fragment,         \* the reference fragment of the current iteration
    expecteddelay,    \* line 247
    fixed,            \* line 248
    j,                \* the cursor of lines 246-250
    candidates,       \* line 252
    result,           \* line 243 / 255
    \* ---- _parse (lines 261-330)
    nread,            \* number of lines read from the file
    line,             \* the line read last, stripped (line 272)
    stage,            \* line 266
    ignoring,         \* line 267
    fragmentlist,     \* line 268
    bound,            \* the locals among seqnumber .. textlines that are bound
    seqnumber,        \* line 289
    starttime,        \* line 301
    endtime,          \* line 306
    textlines,        \* line 314 / 320
    \* ---- shift (lines 413-422)
    stream,           \* the stream shifted
    a,                \* first amount
    b,                \* second amount
    shifted_a,        \* stream.shift(a)
    shifted_ab,       \* stream.shift(a).shift(b)
    shifted_sum,      \* stream.shift(a + b)
    \* ---- check_sequence (lines 388-405)
    fragments,        \* self._fragments
    calls,            \* the calls made so far: [repair, raised]
    wrong_labeled     \* the list the last call returned

selvars == <<ref, options, k, lcsrs, interval, time_score, overlap,
             overlap_score, confidence, best_choice, best_confidence>>

syncvars == <<get_paraphrases, sstream1, sstream2, totaldelay, reference,
              delayed, duration, idx, fragment, expecteddelay, fixed, j,
              candidates, result>>

parsevars == <<nread, line, stage, ignoring, fragmentlist, bound, seqnumber,
               starttime, endtime, textlines>>

shiftvars == <<stream, a, b, shifted_a, shifted_ab, shifted_sum>>

checkvars == <<fragments, calls, wrong_labeled>>

vars == <<pc, err, errline, selvars, syncvars, parsevars, shiftvars, checkvars>>

-----------------------------------------------------------------------------
(* Bounds *)

\* Times of the input fragments range over 0..MaxT.
MaxT == 2

\* Length of one day in time units (24*60*60*1000000 microseconds, scaled).
Day == 8

\* Streams given to synchronize hold at most MaxLen1 and MaxLen2 fragments.
MaxLen1 == 2

MaxLen2 == 3

\* The file parsed holds at most MaxLines lines.
MaxLines == 6

\* The amounts a stream is shifted by range over -MaxShift..MaxShift.
MaxShift == 4

\* Sequence numbers range over 1..MaxSeq, and check_sequence is called at most
\* MaxCalls times on a stream.
MaxSeq == 4

MaxCalls == 2

\* The datetimes that exist range over -DateSpan .. 2 * DateSpan (years 1 to
\* 9999 around 1900, scaled).
DateSpan == 3

-----------------------------------------------------------------------------
(* Arithmetic helpers *)

Abs(x) == IF x < 0 THEN -x ELSE x

Min(x, y) == IF x < y THEN x ELSE y

Max(x, y) == IF x < y THEN y ELSE x

RECURSIVE GCD(_, _)
GCD(x, y) == IF y = 0 THEN x ELSE GCD(y, x % y)

\* The rational n/d (d # 0) in lowest terms with a positive denominator.
Rat(n, d) ==
    LET g == GCD(Abs(n), Abs(d))
        s == IF d < 0 THEN -1 ELSE 1
    IN  <<s * (n \div g), Abs(d) \div g>>

RatAdd(x, y) == Rat(x[1] * y[2] + y[1] * x[2], x[2] * y[2])

RatMul(x, y) == Rat(x[1] * y[1], x[2] * y[2])

RatLess(x, y) == x[1] * y[2] < y[1] * x[2]

RatLeq(x, y) == x[1] * y[2] <= y[1] * x[2]

Zero == <<0, 1>>

One == <<1, 1>>

-----------------------------------------------------------------------------
(* Fragment *)

\* Fragment.__init__
Fragment(seq, start, end, text) ==
    [seqnumber |-> seq, starttime |-> start, endtime |-> end, textlines |-> text]

\* _u(t): the time of day of a datetime, in time units.
_u(t) == t % Day

\* Fragment.duration
Duration(f) == _u(f.endtime) - _u(f.starttime)

\* Fragment.shift without the test of the sign: always forward
FragmentShiftForward(f, microseconds) ==
    LET delta == Abs(microseconds)
    IN  Fragment(f.seqnumber, f.starttime + delta, f.endtime + delta,
                 f.textlines)

\* Fragment.shift, lines 119-129 (datetime arithmetic is exact)
FragmentShift(f, microseconds) ==
    LET delta == Abs(microseconds)
    IN  IF microseconds < 0
        THEN Fragment(f.seqnumber, f.starttime - delta, f.endtime - delta,
                      f.textlines)
        ELSE Fragment(f.seqnumber, f.starttime + delta, f.endtime + delta,
                      f.textlines)

\* SubtitleStream.shift, lines 418-422
StreamShift(s, microseconds) ==
    [i \in 1..Len(s) |-> FragmentShift(s[i], microseconds)]

\* datetime +/- timedelta raises OverflowError outside the datetimes that exist
InDateRange(t) == -DateSpan <= t /\ t <= 2 * DateSpan

ShiftOverflows(s, microseconds) ==
    \E i \in 1..Len(s) :
        LET f == FragmentShift(s[i], microseconds)
        IN  ~InDateRange(f.starttime) \/ ~InDateRange(f.endtime)

\* seq[lo:hi] of Python, positions counted from 0
PySlice(seq, lo, hi) ==
    LET len == Len(seq)
        l == IF lo < 0 THEN Max(len + lo, 0) ELSE Min(lo, len)
        h == IF hi < 0 THEN Max(len + hi, 0) ELSE Min(hi, len)
    IN  IF l >= h THEN <<>> ELSE SubSeq(seq, l + 1, h)

\* seq[-1]; the caller has checked that seq is not empty
Last(seq) == seq[Len(seq)]

-----------------------------------------------------------------------------
(* select_closest *)

\* The candidate window holds at most three fragments: fixed[j-1 : j+2].
WindowMax == 3

\* The answers of the similarity oracle, min(stats['lcsr']): no common
\* subsequence, or the same text.
LcsrVals == {Zero, One}

\* line 215
Interval(opts) == _u(opts[Len(opts)].starttime) - _u(opts[1].starttime)

\* line 225
TimeDistance(r, f) == Abs(_u(r.starttime) - _u(f.starttime))

\* line 226; the caller has checked that ival # 0
TimeScore(r, f, ival) == RatAdd(One, Rat(-TimeDistance(r, f), ival))

\* line 228 with the later end taken instead of the earlier one
OverlapOfLaterEnd(r, f) ==
    Max(_u(r.endtime), _u(f.endtime)) - Max(_u(r.starttime), _u(f.starttime))

\* line 228
Overlap(r, f) ==
    Min(_u(r.endtime), _u(f.endtime)) - Max(_u(r.starttime), _u(f.starttime))

\* line 229; the caller has checked that the division is defined
OverlapScore(r, f) ==
    IF Overlap(r, f) > 0 THEN Rat(Overlap(r, f), Duration(r)) ELSE Zero

\* line 229 divides by zero
OverlapDivZero(r, f) == Overlap(r, f) > 0 /\ Duration(r) = 0

\* line 232
Confidence(ts, lcsr, os) ==
    RatAdd(RatAdd(RatMul(Rat(5, 10), ts), RatMul(Rat(3, 10), lcsr)),
           RatMul(Rat(2, 10), os))

\* line 234: the candidate replaces the best one so far
Better(c, best) == RatLess(best, c)


\* One iteration of the for loop, lines 216-236, as a function of the locals:
\* the outcome of scoring candidate f, the oracle answering lcsr.
ScoreCandidate(r, f, ival, lcsr, bchoice, bconf) ==
    IF ival = 0
    THEN [err |-> "ZeroDivisionError", errline |-> 226,
          time_score |-> Zero, overlap |-> 0, overlap_score |-> Zero,
          confidence |-> Zero, best_choice |-> bchoice, best_confidence |-> bconf]
    ELSE IF OverlapDivZero(r, f)
    THEN [err |-> "ZeroDivisionError", errline |-> 229,
          time_score |-> TimeScore(r, f, ival), overlap |-> Overlap(r, f),
          overlap_score |-> Zero,
          confidence |-> Zero, best_choice |-> bchoice, best_confidence |-> bconf]
    ELSE LET ts == TimeScore(r, f, ival)
             os == OverlapScore(r, f)
             c  == Confidence(ts, lcsr, os)
         IN  [err |-> "none", errline |-> 0,
              time_score |-> ts, overlap |-> Overlap(r, f), overlap_score |-> os,
              confidence |-> c,
              best_choice |-> IF Better(c, bconf) THEN f ELSE bchoice,
              best_confidence |-> IF Better(c, bconf) THEN c ELSE bconf]

\* select_closest as a whole, lines 213-238: the loop over opts from position
\* n on, answers[i] being the oracle's answer for opts[i].
RECURSIVE SelectLoop(_, _, _, _, _, _, _)
SelectLoop(r, opts, answers, ival, n, bchoice, bconf) ==
    IF n > Len(opts)
    THEN [err |-> "none", errline |-> 0, closest |-> bchoice, confidence |-> bconf]
    ELSE LET s == ScoreCandidate(r, opts[n], ival, answers[n], bchoice, bconf)
         IN  IF s.err # "none"
             THEN [err |-> s.err, errline |-> s.errline,
                   closest |-> bchoice, confidence |-> bconf]
             ELSE SelectLoop(r, opts, answers, ival, n + 1,
                             s.best_choice, s.best_confidence)

\* options[0] of an empty window raises IndexError (line 213)
SelectClosest(r, opts, answers) ==
    IF Len(opts) = 0
    THEN [err |-> "IndexError", errline |-> 213, closest |-> r, confidence |-> Zero]
    ELSE SelectLoop(r, opts, answers, Interval(opts), 1, opts[1], Zero)

-----------------------------------------------------------------------------
(* synchronize and _synchronize *)

\* line 193
TotalDelay(s1, s2) == _u(Last(s1).starttime) - _u(Last(s2).starttime)

\* line 194 with the test reversed
RolesReversed(s1, s2, td) == IF td > 0 THEN <<s1, s2>> ELSE <<s2, s1>>

\* line 194: <<reference, delayed>>
Roles(s1, s2, td) == IF td < 0 THEN <<s1, s2>> ELSE <<s2, s1>>

\* line 190 reading the end time of x instead of its start time
DelayFunctionOfEnd(td, dur, x) == Rat(_u(x.endtime) * td, dur)

\* lines 189-190, build_delay_function(totaldelay, duration) applied to x;
\* the caller has checked that dur # 0
DelayFunction(td, dur, x) == Rat(_u(x.starttime) * td, dur)

\* timedelta(microseconds=x) of a float x >= 0 rounds to the nearest unit
RoundToUnit(x) == (2 * x[1] + x[2]) \div (2 * x[2])

\* lines 246-250: the value of j when the while loop ends, started at j0
RECURSIVE Cursor(_, _, _)
Cursor(fx, frag, j0) ==
    IF j0 < Len(fx) - 1 /\ fx[j0 + 1].starttime < frag.starttime
    THEN Cursor(fx, frag, j0 + 1)
    ELSE j0

\* line 252 without the clamp of the lower end
CandidatesUnclamped(fx, j0) == PySlice(fx, j0 - 1, Min(Len(fx), j0 + 2))

\* line 252
Candidates(fx, j0) == PySlice(fx, Max(0, j0 - 1), Min(Len(fx), j0 + 2))

-----------------------------------------------------------------------------
(* The variables of the scenarios that are not running *)

NoFragment == Fragment(0, 0, 0, <<>>)

IdleSelect ==
    /\ ref = NoFragment
    /\ options = <<>>
    /\ k = 0
    /\ lcsrs = <<>>
    /\ interval = 0
    /\ time_score = Zero
    /\ overlap = 0
    /\ overlap_score = Zero
    /\ confidence = Zero
    /\ best_choice = NoFragment
    /\ best_confidence = Zero

IdleSync ==
    /\ get_paraphrases = TRUE
    /\ sstream1 = <<>>
    /\ sstream2 = <<>>
    /\ totaldelay = 0
    /\ reference = <<>>
    /\ delayed = <<>>
    /\ duration = 0
    /\ idx = 0
    /\ fragment = NoFragment
    /\ expecteddelay = Zero
    /\ fixed = <<>>
    /\ j = 0
    /\ candidates = <<>>
    /\ result = <<>>

IdleParse ==
    /\ nread = 0
    /\ line = ""
    /\ stage = 0
    /\ ignoring = TRUE
    /\ fragmentlist = <<>>
    /\ bound = {}
    /\ seqnumber = 0
    /\ starttime = 0
    /\ endtime = 0
    /\ textlines = <<>>

IdleShift ==
    /\ stream = <<>>
    /\ a = 0
    /\ b = 0
    /\ shifted_a = <<>>
    /\ shifted_ab = <<>>
    /\ shifted_sum = <<>>

IdleCheck ==
    /\ fragments = <<>>
    /\ calls = <<>>
    /\ wrong_labeled = <<>>

-----------------------------------------------------------------------------
(* Scenario: select_closest applied to one reference and one window *)

TextA == <<"a">>

\* The reference fragments of this scenario: any start and end in 0..MaxT
\* (end <= start included: the parser does not validate it).
SelFragments ==
    {Fragment(1, s, e, TextA) : s \in 0..MaxT, e \in 0..MaxT}

\* The candidates: any start in 0..MaxT, ending one unit later or (malformed)
\* one unit earlier, not before time 0.
SelCandidates ==
    {Fragment(1, s, e, TextA) :
        <<s, e>> \in {p \in (0..MaxT) \X (0..MaxT + 1) :
                        p[2] \in {Max(0, p[1] - 1), p[1] + 1}}}

SelWindows ==
    UNION {[1..n -> SelCandidates] : n \in 1..WindowMax}

InitSelect ==
    /\ pc = "select"
    /\ err = "none"
    /\ errline = 0
    /\ ref \in SelFragments
    /\ options \in SelWindows
    /\ k = 0
    /\ lcsrs = <<>>
    /\ interval = 0
    /\ time_score = Zero
    /\ overlap = 0
    /\ overlap_score = Zero
    /\ confidence = Zero
    /\ best_choice = NoFragment
    /\ best_confidence = Zero
    /\ IdleSync /\ IdleParse /\ IdleShift /\ IdleCheck

\* lines 213-215
SelectStart ==
    /\ pc = "select"
    /\ best_choice' = options[1]
    /\ best_confidence' = Zero
    /\ interval' = Interval(options)
    /\ pc' = "scoring"
    /\ UNCHANGED <<err, errline, ref, options, k, lcsrs, time_score, overlap,
                   overlap_score, confidence>>
    /\ UNCHANGED <<syncvars, parsevars, shiftvars, checkvars>>

\* lines 216-236, one candidate
SelectScore ==
    /\ pc = "scoring"
    /\ k < Len(options)
    /\ \E lcsr \in LcsrVals :
         LET s == ScoreCandidate(ref, options[k + 1], interval, lcsr,
                                 best_choice, best_confidence)
         IN  /\ err' = s.err
             /\ errline' = s.errline
             /\ time_score' = s.time_score
             /\ overlap' = s.overlap
             /\ overlap_score' = s.overlap_score
             /\ confidence' = s.confidence
             /\ best_choice' = s.best_choice
             /\ best_confidence' = s.best_confidence
             /\ pc' = IF s.err = "none" THEN "scoring" ELSE "raised"
             /\ k' = IF s.err = "none" THEN k + 1 ELSE k
             /\ lcsrs' = Append(lcsrs, lcsr)
    /\ UNCHANGED <<ref, options, interval>>
    /\ UNCHANGED <<syncvars, parsevars, shiftvars, checkvars>>

\* line 238
SelectReturn ==
    /\ pc = "scoring"
    /\ k = Len(options)
    /\ pc' = "returned"
    /\ UNCHANGED <<err, errline, selvars>>
    /\ UNCHANGED <<syncvars, parsevars, shiftvars, checkvars>>

NextSelect == SelectStart \/ SelectScore \/ SelectReturn

SpecSelect == InitSelect /\ [][NextSelect]_vars

-----------------------------------------------------------------------------
(* Claims about select_closest *)

\* The confidence line 232 computes for options[i], the oracle having
\* answered lcsrs[i]; defined when the window spans a non-zero interval.
ComputedConfidence(i) ==
    Confidence(TimeScore(ref, options[i], Interval(options)), lcsrs[i],
               OverlapScore(ref, options[i]))

\* C4: when the window's time span is zero (a single candidate, or all
\* candidates starting at the same time) the scorer does not divide by zero:
\* the call raises nothing and every candidate scored has time_score = 1.
C4_ZeroSpanDoesNotDivideByZero ==
    (pc # "select" /\ Interval(options) = 0)
        => (err = "none" /\ (k > 0 => time_score = One))

\* C5: when select_closest returns, best_choice is the candidate with the
\* greatest computed confidence, the earliest such candidate on ties, and
\* best_confidence is that candidate's computed confidence, also when every
\* confidence is zero or negative.
C5_ReturnsGreatestConfidence ==
    pc = "returned" =>
        \E i \in 1..Len(options) :
            /\ \A n \in 1..Len(options) :
                   RatLeq(ComputedConfidence(n), ComputedConfidence(i))
            /\ \A n \in 1..(i - 1) :
                   RatLess(ComputedConfidence(n), ComputedConfidence(i))
            /\ best_choice = options[i]
            /\ best_confidence = ComputedConfidence(i)

\* C10: the overlap_score of every candidate scored lies in [0, 1] and line
\* 229 never divides by zero: the division is reached only with overlap > 0,
\* and then 0 < overlap <= ref.duration.
C10_OverlapScoreInUnitInterval ==
    /\ errline # 229
    /\ RatLeq(Zero, overlap_score)
    /\ RatLeq(overlap_score, One)
    /\ (k > 0 /\ overlap > 0) =>
           (Duration(ref) > 0 /\ overlap <= Duration(ref))

\* C10 witness: a window whose first candidate is malformed (end <= start)
\* has been scored, and the division of line 229 was taken for the last
\* candidate, which overlaps a part of the reference.
C10_Witness ==
    /\ pc = "returned"
    /\ k >= 2
    /\ options[1].endtime <= options[1].starttime
    /\ overlap > 0
    /\ RatLess(Zero, overlap_score)
    /\ RatLess(overlap_score, One)

-----------------------------------------------------------------------------
(* Scenario: synchronize(sstream1, sstream2) *)

\* The fragments of this scenario: any start in 0..MaxT, one unit long, all
\* with the same text.
SyncFragments == {Fragment(1, s, s + 1, TextA) : s \in 0..MaxT}

\* The streams of at most len fragments, in any order (streams are not sorted).
SyncStreams(len) == UNION {[1..m -> SyncFragments] : m \in 0..len}

\* The oracle's answer for two equal texts.
SameTextLcsr == One

InitSync ==
    /\ pc = "synchronize"
    /\ err = "none"
    /\ errline = 0
    /\ get_paraphrases \in BOOLEAN
    /\ sstream1 \in SyncStreams(MaxLen1)
    /\ sstream2 \in SyncStreams(MaxLen2)
    /\ totaldelay = 0
    /\ reference = <<>>
    /\ delayed = <<>>
    /\ duration = 0
    /\ idx = 0
    /\ fragment = NoFragment
    /\ expecteddelay = Zero
    /\ fixed = <<>>
    /\ j = 0
    /\ candidates = <<>>
    /\ result = <<>>
    /\ IdleSelect /\ IdleParse /\ IdleShift /\ IdleCheck

\* synchronize, lines 186-198, and the entry of _synchronize, lines 240-243
Synchronize ==
    /\ pc = "synchronize"
    /\ IF ~get_paraphrases
       THEN /\ pc' = "raised" /\ err' = "Exception" /\ errline' = 187
            /\ UNCHANGED <<totaldelay, reference, delayed, duration, idx, result>>
       ELSE IF Len(sstream1) = 0 \/ Len(sstream2) = 0
       THEN /\ pc' = "raised" /\ err' = "IndexError" /\ errline' = 193
            /\ UNCHANGED <<totaldelay, reference, delayed, duration, idx, result>>
       ELSE LET td    == TotalDelay(sstream1, sstream2)
                roles == Roles(sstream1, sstream2, td)
            IN  /\ totaldelay' = td
                /\ reference' = roles[1]
                /\ delayed' = roles[2]
                /\ duration' = _u(Last(roles[1]).starttime)
                /\ result' = <<>>
                /\ IF Len(roles[1]) = 0
                   THEN pc' = "returned" /\ idx' = 0
                   ELSE pc' = "window" /\ idx' = 1
                /\ UNCHANGED <<err, errline>>
    /\ UNCHANGED <<get_paraphrases, sstream1, sstream2, fragment, expecteddelay,
                   fixed, j, candidates>>
    /\ UNCHANGED <<selvars, parsevars, shiftvars, checkvars>>

\* lines 244-252: the window of the next reference fragment
SyncWindow ==
    /\ pc = "window"
    /\ idx <= Len(reference)
    /\ fragment' = reference[idx]
    /\ IF duration = 0
       THEN /\ pc' = "raised" /\ err' = "ZeroDivisionError" /\ errline' = 190
            /\ UNCHANGED <<expecteddelay, fixed, j, candidates>>
       ELSE LET d  == DelayFunction(Abs(totaldelay), duration, reference[idx])
                fx == StreamShift(delayed, -RoundToUnit(d))
                j1 == Cursor(fx, reference[idx], 0)
            IN  /\ expecteddelay' = d
                /\ IF ShiftOverflows(delayed, -RoundToUnit(d))
                   THEN /\ pc' = "raised" /\ err' = "OverflowError"
                        /\ errline' = 122
                        /\ UNCHANGED <<fixed, j, candidates>>
                   ELSE /\ fixed' = fx
                        /\ j' = j1
                        /\ candidates' = Candidates(fx, j1)
                        /\ pc' = "closest"
                        /\ UNCHANGED <<err, errline>>
    /\ UNCHANGED <<get_paraphrases, sstream1, sstream2, totaldelay, reference,
                   delayed, duration, idx, result>>
    /\ UNCHANGED <<selvars, parsevars, shiftvars, checkvars>>

\* lines 254-255: select_closest on the window, and the triple appended
SyncClosest ==
    /\ pc = "closest"
    /\ LET s == SelectClosest(fragment, candidates,
                              [i \in 1..Len(candidates) |-> SameTextLcsr])
       IN  IF s.err # "none"
           THEN /\ pc' = "raised" /\ err' = s.err /\ errline' = s.errline
                /\ UNCHANGED <<idx, result>>
           ELSE /\ result' = Append(result, <<fragment, s.closest, s.confidence>>)
                /\ idx' = idx + 1
                /\ pc' = "window"
                /\ UNCHANGED <<err, errline>>
    /\ UNCHANGED <<get_paraphrases, sstream1, sstream2, totaldelay, reference,
                   delayed, duration, fragment, expecteddelay, fixed, j,
                   candidates>>
    /\ UNCHANGED <<selvars, parsevars, shiftvars, checkvars>>

\* line 258
SyncReturn ==
    /\ pc = "window"
    /\ idx > Len(reference)
    /\ pc' = "returned"
    /\ UNCHANGED <<err, errline, syncvars>>
    /\ UNCHANGED <<selvars, parsevars, shiftvars, checkvars>>

NextSync == Synchronize \/ SyncWindow \/ SyncClosest \/ SyncReturn

SpecSync == InitSync /\ [][NextSync]_vars

-----------------------------------------------------------------------------
(* Claims about synchronize *)

\* C1: with the oracle present, synchronize with an empty first stream
\* returns an empty result list and raises no error.
C1_EmptyReferenceReturnsEmpty ==
    (get_paraphrases /\ Len(sstream1) = 0 /\ pc # "synchronize")
        => (pc = "returned" /\ err = "none" /\ result = <<>>)

SyncRolesAssigned == pc \in {"window", "closest"}

LastStartsDiffer ==
    _u(Last(sstream1).starttime) # _u(Last(sstream2).starttime)

\* The part of C2 that does not depend on which stream is which: the two
\* arguments are the reference and the delayed stream, the reference is the
\* one iterated and the divisor, the delayed one is shifted backward.
RolesUsed ==
    /\ <<reference, delayed>> \in {<<sstream1, sstream2>>, <<sstream2, sstream1>>}
    /\ duration = _u(Last(reference).starttime)
    /\ pc = "closest" =>
          /\ fragment = reference[idx]
          /\ Len(fixed) = Len(delayed)
          /\ \A i \in 1..Len(fixed) : fixed[i].starttime <= delayed[i].starttime

\* C2 as stated: of two non-empty streams whose last fragments start at
\* different times, the one whose last fragment starts LATER is the reference
\* and the other is the delayed stream that is shifted backward.
C2_ReferenceIsLaterStream ==
    (SyncRolesAssigned /\ LastStartsDiffer) =>
        /\ RolesUsed
        /\ _u(Last(reference).starttime) > _u(Last(delayed).starttime)

\* C2 amended: the stream whose last fragment starts EARLIER is the
\* reference, and the one whose last fragment starts later is the delayed
\* stream that is shifted backward.
C2_ReferenceIsEarlierStream ==
    (SyncRolesAssigned /\ LastStartsDiffer) =>
        /\ RolesUsed
        /\ _u(Last(reference).starttime) < _u(Last(delayed).starttime)

\* C2 witness: the first stream ends later, a window has been built on the
\* second one, and the delayed stream has moved backward.
C2_Witness ==
    /\ pc = "closest"
    /\ _u(Last(sstream1).starttime) > _u(Last(sstream2).starttime)
    /\ reference = sstream2
    /\ fixed # delayed

\* C6: for every reference fragment the cursor j ends in 0..len-1 and the
\* window is a contiguous run of 1 to 3 fragments of the corrected stream,
\* inside 0..len-1, that contains the fragment at the cursor; when the
\* reference fragment starts before all corrected fragments the window starts
\* at index 0.
C6_WindowInsideStream ==
    pc = "closest" =>
        LET len == Len(fixed)
            w   == Len(candidates)
        IN  /\ len >= 1
            /\ j \in 0..(len - 1)
            /\ w \in 1..WindowMax
            /\ \E lo \in 0..(len - 1) :
                   /\ lo + w <= len
                   /\ lo <= j /\ j < lo + w
                   /\ \A i \in 1..w : candidates[i] = fixed[lo + i]
                   /\ lo >= j - 1
            /\ (\A i \in 1..len : fragment.starttime < fixed[i].starttime) =>
                   (j = 0 /\ \A i \in 1..w : candidates[i] = fixed[i])

\* C6 witness: a reference fragment that starts before all three fragments of
\* the corrected stream.
C6_Witness ==
    /\ pc = "closest"
    /\ Len(fixed) = 3
    /\ \A i \in 1..Len(fixed) : fragment.starttime < fixed[i].starttime

\* The reference stream's start times never decrease.
ReferenceSorted ==
    \A i \in 1..(Len(reference) - 1) :
        _u(reference[i].starttime) <= _u(reference[i + 1].starttime)

-----------------------------------------------------------------------------
(* Scenario: _parse reading a file line by line *)

Period1 == "00:00:00,000 --> 00:00:01,000"

Period2 == "00:00:01,000 --> 00:00:02,000"

\* The stripped lines a file is made of: a blank line, two integers, two
\* well-formed timing lines, a text line, a timing line with too few
\* components and one with a component that is no integer.
Lines == {"", "1", "2", Period1, Period2, "a", "1:2 --> 3:4", "x --> y"}

\* int(line) succeeds (line 289)
IsInteger(l) == l \in {"1", "2"}

IntegerOf(l) == IF l = "1" THEN 1 ELSE 2

\* line.split('-->') gives two parts of four integers each (lines 295-306)
IsPeriod(l) == l \in {Period1, Period2}

\* <<starttime, endtime>> of a well-formed timing line, in seconds
PeriodOf(l) == IF l = Period1 THEN <<0, 1>> ELSE <<1, 2>>

\* int(i) of line 298 raises ValueError, which line 307 does not catch
HasNonIntegerComponent(l) == l = "x --> y"

InitParse ==
    /\ pc = "parsing"
    /\ err = "none"
    /\ errline = 0
    /\ nread = 0
    /\ line = ""
    /\ stage = 0
    /\ ignoring = TRUE
    /\ fragmentlist = <<>>
    /\ bound = {}
    /\ seqnumber = 0
    /\ starttime = 0
    /\ endtime = 0
    /\ textlines = <<>>
    /\ IdleSelect /\ IdleSync /\ IdleShift /\ IdleCheck

\* Fragment(seqnumber, starttime, endtime, textlines) of lines 275 and 325
\* reads four locals: an unbound one raises UnboundLocalError.
AllBound == bound = {"seqnumber", "starttime", "endtime", "textlines"}

\* lines 271-322: one iteration of the for loop, on line l
ParseLine(l) ==
    /\ pc = "parsing"
    /\ nread < MaxLines
    /\ nread' = nread + 1
    /\ line' = l
    /\ IF l = ""
       THEN IF ~ignoring
            THEN IF AllBound
                 THEN /\ fragmentlist' = Append(fragmentlist,
                              Fragment(seqnumber, starttime, endtime, textlines))
                      /\ stage' = 0
                      /\ ignoring' = TRUE
                      /\ UNCHANGED <<pc, err, errline, bound, seqnumber,
                                     starttime, endtime, textlines>>
                 ELSE /\ pc' = "raised" /\ err' = "UnboundLocalError"
                      /\ errline' = 275
                      /\ UNCHANGED <<stage, ignoring, fragmentlist, bound,
                                     seqnumber, starttime, endtime, textlines>>
            ELSE UNCHANGED <<pc, err, errline, stage, ignoring, fragmentlist,
                             bound, seqnumber, starttime, endtime, textlines>>
       ELSE /\ ignoring' = FALSE
            /\ UNCHANGED fragmentlist
            /\ IF stage = 0
               THEN IF IsInteger(l)
                    THEN /\ seqnumber' = IntegerOf(l)
                         /\ bound' = bound \cup {"seqnumber"}
                         /\ stage' = stage + 1
                         /\ UNCHANGED <<pc, err, errline, starttime, endtime,
                                        textlines>>
                    ELSE /\ pc' = "raised" /\ err' = "SRTParseException"
                         /\ errline' = 291
                         /\ UNCHANGED <<stage, bound, seqnumber, starttime,
                                        endtime, textlines>>
               ELSE IF stage = 1
               THEN IF IsPeriod(l)
                    THEN /\ starttime' = PeriodOf(l)[1]
                         /\ endtime' = PeriodOf(l)[2]
                         /\ bound' = bound \cup {"starttime", "endtime"}
                         /\ stage' = stage + 1
                         /\ UNCHANGED <<pc, err, errline, seqnumber, textlines>>
                    ELSE IF HasNonIntegerComponent(l)
                    THEN /\ pc' = "raised" /\ err' = "ValueError"
                         /\ errline' = 298
                         /\ UNCHANGED <<stage, bound, seqnumber, starttime,
                                        endtime, textlines>>
                    ELSE /\ pc' = "raised" /\ err' = "SRTParseException"
                         /\ errline' = 308
                         /\ UNCHANGED <<stage, bound, seqnumber, starttime,
                                        endtime, textlines>>
               ELSE /\ textlines' = IF stage = 2 THEN <<l>>
                                    ELSE Append(textlines, l)
                    /\ bound' = bound \cup {"textlines"}
                    /\ stage' = stage + 1
                    /\ UNCHANGED <<pc, err, errline, seqnumber, starttime, endtime>>
    /\ UNCHANGED <<selvars, syncvars, shiftvars, checkvars>>

\* lines 324-330: the end of the file
ParseEndOfFile ==
    /\ pc = "parsing"
    /\ IF ~ignoring
       THEN IF AllBound
            THEN /\ fragmentlist' = Append(fragmentlist,
                         Fragment(seqnumber, starttime, endtime, textlines))
                 /\ pc' = "returned"
                 /\ UNCHANGED <<err, errline>>
            ELSE /\ pc' = "raised" /\ err' = "UnboundLocalError"
                 /\ errline' = 325
                 /\ UNCHANGED fragmentlist
       ELSE /\ pc' = "returned"
            /\ UNCHANGED <<err, errline, fragmentlist>>
    /\ UNCHANGED <<nread, line, stage, ignoring, bound, seqnumber, starttime,
                   endtime, textlines>>
    /\ UNCHANGED <<selvars, syncvars, shiftvars, checkvars>>

NextParse == (\E l \in Lines : ParseLine(l)) \/ ParseEndOfFile

SpecParse == InitParse /\ [][NextParse]_vars

\* A block ends in this step: a blank line is read, or the file ends, after
\* at least one line of the block.
BlockEnds ==
    /\ pc = "parsing"
    /\ ~ignoring
    /\ \/ nread' = nread + 1 /\ line' = ""
       \/ nread' = nread /\ pc' # "parsing"

\* C7: whenever a block ends without having contributed a text line (stage
\* < 3: only a sequence number, or only a sequence number and a timing line),
\* the parser fails with a parse error and appends no Fragment.
C7_BlockWithoutTextFails ==
    [][(BlockEnds /\ stage < 3) =>
           (err' = "SRTParseException" /\ fragmentlist' = fragmentlist)]_vars

-----------------------------------------------------------------------------
(* Scenario: stream.shift(a).shift(b) and stream.shift(a + b) *)

InitShift ==
    /\ pc = "shift"
    /\ err = "none"
    /\ errline = 0
    /\ stream \in SyncStreams(MaxLen1)
    /\ a \in -MaxShift..MaxShift
    /\ b \in -MaxShift..MaxShift
    /\ shifted_a = <<>>
    /\ shifted_ab = <<>>
    /\ shifted_sum = <<>>
    /\ IdleSelect /\ IdleSync /\ IdleParse /\ IdleCheck

\* stream.shift(a)
ShiftByA ==
    /\ pc = "shift"
    /\ IF ShiftOverflows(stream, a)
       THEN /\ pc' = "raised" /\ err' = "OverflowError" /\ errline' = 122
            /\ UNCHANGED shifted_a
       ELSE /\ shifted_a' = StreamShift(stream, a)
            /\ pc' = "shifted_a"
            /\ UNCHANGED <<err, errline>>
    /\ UNCHANGED <<stream, a, b, shifted_ab, shifted_sum>>
    /\ UNCHANGED <<selvars, syncvars, parsevars, checkvars>>

\* stream.shift(a).shift(b)
ShiftByB ==
    /\ pc = "shifted_a"
    /\ IF ShiftOverflows(shifted_a, b)
       THEN /\ pc' = "raised" /\ err' = "OverflowError" /\ errline' = 122
            /\ UNCHANGED shifted_ab
       ELSE /\ shifted_ab' = StreamShift(shifted_a, b)
            /\ pc' = "shifted_ab"
            /\ UNCHANGED <<err, errline>>
    /\ UNCHANGED <<stream, a, b, shifted_a, shifted_sum>>
    /\ UNCHANGED <<selvars, syncvars, parsevars, checkvars>>

\* stream.shift(a + b)
ShiftBySum ==
    /\ pc = "shifted_ab"
    /\ IF ShiftOverflows(stream, a + b)
       THEN /\ pc' = "raised" /\ err' = "OverflowError" /\ errline' = 122
            /\ UNCHANGED shifted_sum
       ELSE /\ shifted_sum' = StreamShift(stream, a + b)
            /\ pc' = "shifted_sum"
            /\ UNCHANGED <<err, errline>>
    /\ UNCHANGED <<stream, a, b, shifted_a, shifted_ab>>
    /\ UNCHANGED <<selvars, syncvars, parsevars, checkvars>>

NextShift == ShiftByA \/ ShiftByB \/ ShiftBySum

SpecShift == InitShift /\ [][NextShift]_vars

\* The start and end times of a stream's fragments, in order.
Times(s) == [i \in 1..Len(s) |-> <<s[i].starttime, s[i].endtime>>]

\* C8: stream.shift(a).shift(b) has the same number of fragments as
\* stream.shift(a + b) and at every position the same start and end time, and
\* no call changes the original stream.
C8_ShiftComposes ==
    [][/\ stream' = stream
       /\ pc' = "shifted_sum" =>
             /\ Len(shifted_ab') = Len(shifted_sum')
             /\ Len(shifted_sum') = Len(stream)
             /\ Times(shifted_ab') = Times(shifted_sum')]_vars

\* C8 witness: a backward shift followed by a different forward shift of a
\* stream of two fragments, all three streams computed.
C8_Witness ==
    /\ pc = "shifted_sum"
    /\ Len(stream) = 2
    /\ a < 0
    /\ b > 0
    /\ a + b # 0
    /\ Times(shifted_a) # Times(stream)

-----------------------------------------------------------------------------
(* Scenario: check_sequence called on a stream *)

\* The streams of this scenario: any sequence numbers in 1..MaxSeq.
CheckStreams ==
    UNION {[1..m -> {Fragment(q, 0, 1, TextA) : q \in 1..MaxSeq}] :
              m \in 0..MaxLen2}

InitCheck ==
    /\ pc = "idle"
    /\ err = "none"
    /\ errline = 0
    /\ fragments \in CheckStreams
    /\ calls = <<>>
    /\ wrong_labeled = <<>>
    /\ IdleSelect /\ IdleSync /\ IdleParse /\ IdleShift

\* The positions (from 1) whose fragment carries another sequence number
\* (lines 399-400).
Mismatches(fs) == {i \in 1..Len(fs) : fs[i].seqnumber # i}

\* The set s of positions in increasing order
RECURSIVE Ascending(_)
Ascending(s) ==
    IF s = {} THEN <<>>
    ELSE LET m == CHOOSE x \in s : \A y \in s : x <= y
         IN  <<m>> \o Ascending(s \ {m})

\* lines 398-405 without repair: the list of (fragment, number, position)
WrongLabeled(fs) ==
    LET pos == Ascending(Mismatches(fs))
    IN  [i \in 1..Len(pos) |-> <<fs[pos[i]], fs[pos[i]].seqnumber, pos[i]>>]

\* check_sequence(repair), lines 398-405.  Fragment.seqnumber is a property
\* without a setter (lines 137-139): the assignment of line 403 raises
\* AttributeError at the first mismatch and changes nothing.
CheckSequence(repair) ==
    /\ pc = "idle"
    /\ Len(calls) < MaxCalls
    /\ IF repair /\ Mismatches(fragments) # {}
       THEN /\ err' = "AttributeError"
            /\ errline' = 403
            /\ calls' = Append(calls, [repair |-> repair, raised |-> TRUE])
            /\ UNCHANGED wrong_labeled
       ELSE /\ err' = "none"
            /\ errline' = 0
            /\ calls' = Append(calls, [repair |-> repair, raised |-> FALSE])
            /\ wrong_labeled' = WrongLabeled(fragments)
    /\ UNCHANGED <<pc, fragments>>
    /\ UNCHANGED <<selvars, syncvars, parsevars, shiftvars>>

NextCheck == \E repair \in BOOLEAN : CheckSequence(repair)

SpecCheck == InitCheck /\ [][NextCheck]_vars

\* C3: check_sequence(repair=true) completes and leaves every fragment with
\* its 1-based position as sequence number, and a check_sequence() that
\* follows it immediately returns an empty list.
C3_RepairRenumbers ==
    /\ (calls # <<>> /\ Last(calls).repair) =>
           /\ ~Last(calls).raised
           /\ \A i \in 1..Len(fragments) : fragments[i].seqnumber = i
    /\ (Len(calls) >= 2 /\ calls[Len(calls) - 1].repair /\ ~Last(calls).repair) =>
           (~Last(calls).raised /\ wrong_labeled = <<>>)

=============================================================================
